---- MODULE Spec2Model ----
(***************************************************************************)
(* Model of the rule-list generators under .github/scripts:                *)
(*   generate_rules.py  (parse_rule, process_gmoogway_module,              *)
(*                       deduplicate_rules, convert_to_mihomo, main)       *)
(*   process_rules.py   (process_rules, apply_customizations, main)        *)
(*   update_rules.py    (merge_and_deduplicate, generate_rule_files)       *)
(*                                                                         *)
(* A Python str is a sequence of one-character strings; a list of lines is *)
(* a sequence of such sequences.  Comparison, case mapping and splitting   *)
(* are computed character by character, as CPython computes them.          *)
(***************************************************************************)
EXTENDS Integers, Sequences, FiniteSets, TLC

VARIABLES
    pc,                    \* position of the run that is being modelled
    rules,                 \* deduplicate_rules: the argument rules
    deduped,               \* deduplicate_rules: the returned deduped_list
    prev,                  \* the list returned by the previous call
    env,                   \* per category: what the feeds and the custom files hold
    category,              \* index of the category the main loop is at
    sr_files,              \* shadowrocket/<category>.list: <<>> or <<text>>
    mh_files,              \* mihomo/<category>.list: <<>> or <<text>>
    exit_status,           \* <<>> while running, <<code>> once the process ended
    overall_success,       \* generate_rules.main
    base_content,          \* generate_rules.main
    processed_base_rules,  \* generate_rules.main
    external_rules,        \* generate_rules.main
    deduplicated_rules,    \* generate_rules.main
    custom_list_rules,     \* generate_rules.main
    final_sr_rules,        \* generate_rules.main
    final_mihomo_rules,    \* generate_rules.main
    source_lines,          \* process_rules.main
    main_rules,            \* process_rules.main: the local rules
    append_list,           \* process_rules.main
    exclude_list,          \* process_rules.main
    final_rules,           \* process_rules.main, update_rules.generate_rule_files
    mihomo_rules,          \* process_rules.main, update_rules.generate_rule_files
    merged_rules           \* update_rules.merge_and_deduplicate: the returned list

callVars == <<rules, deduped, prev>>
runVars == <<env, category, sr_files, mh_files, exit_status>>
generateVars ==
    <<overall_success, base_content, processed_base_rules, external_rules,
      deduplicated_rules, custom_list_rules, final_sr_rules, final_mihomo_rules>>
processVars == <<source_lines, main_rules, append_list, exclude_list>>
outputVars == <<final_rules, mihomo_rules, merged_rules>>

vars == <<pc, callVars, runVars, generateVars, processVars, outputVars>>

(***************************************************************************)
(* Python str primitives                                                   *)
(***************************************************************************)

\* The printable ASCII characters in code-point order (U+0020 .. U+007E);
\* U+0060, which no rule line uses, is written GRAVE.
Ascii ==
    <<" ", "!", "\"", "#", "$", "%", "&", "'", "(", ")", "*", "+", ",", "-", ".", "/",
      "0", "1", "2", "3", "4", "5", "6", "7", "8", "9", ":", ";", "<", "=", ">", "?",
      "@", "A", "B", "C", "D", "E", "F", "G", "H", "I", "J", "K", "L", "M", "N", "O",
      "P", "Q", "R", "S", "T", "U", "V", "W", "X", "Y", "Z", "[", "\\", "]", "^", "_",
      "GRAVE", "a", "b", "c", "d", "e", "f", "g", "h", "i", "j", "k", "l", "m", "n", "o",
      "p", "q", "r", "s", "t", "u", "v", "w", "x", "y", "z", "{", "|", "}", "~">>

\* ord(c): the code point of a character.
ord == [c \in {Ascii[i] : i \in 1..Len(Ascii)} |->
           31 + (CHOOSE i \in 1..Len(Ascii) : Ascii[i] = c)]

\* chr(n)
chr(n) == Ascii[n - 31]

\* str.lower() / str.upper() on one character
lower_char(c) == IF ord[c] >= 65 /\ ord[c] <= 90 THEN chr(ord[c] + 32) ELSE c
upper_char(c) == IF ord[c] >= 97 /\ ord[c] <= 122 THEN chr(ord[c] - 32) ELSE c

\* str.lower() / str.upper()
str_lower(s) == [i \in 1..Len(s) |-> lower_char(s[i])]
str_upper(s) == [i \in 1..Len(s) |-> upper_char(s[i])]

\* s[i:] with a 1-based start
Drop(s, i) == SubSeq(s, i, Len(s))

\* str.startswith(p)
startswith(s, p) == Len(p) <= Len(s) /\ SubSeq(s, 1, Len(p)) = p

\* str.endswith(p)
endswith(s, p) == Len(p) <= Len(s) /\ SubSeq(s, Len(s) - Len(p) + 1, Len(s)) = p

\* (p in s) for strings: p occurs somewhere in s
str_contains(s, p) ==
    \E i \in 1..(Len(s) - Len(p) + 1) : SubSeq(s, i, i + Len(p) - 1) = p

\* the characters str.strip() removes
Whitespace == {" ", "\t", "\n", "\r"}

\* str.strip(): whitespace is removed at both ends
RECURSIVE lstrip(_)
lstrip(s) == IF s # <<>> /\ Head(s) \in Whitespace THEN lstrip(Tail(s)) ELSE s

RECURSIVE rstrip(_)
rstrip(s) ==
    IF s # <<>> /\ s[Len(s)] \in Whitespace
    THEN rstrip(SubSeq(s, 1, Len(s) - 1))
    ELSE s

strip(s) == rstrip(lstrip(s))

\* the first index of character c in s, 0 when absent (str.find(c) + 1)
find_char(s, c) ==
    IF \E i \in 1..Len(s) : s[i] = c
    THEN CHOOSE i \in 1..Len(s) : s[i] = c /\ \A j \in 1..(i - 1) : s[j] # c
    ELSE 0

\* str.split(c): the parts between the occurrences of character c
RECURSIVE split(_, _)
split(s, c) ==
    LET i == find_char(s, c) IN
    IF i = 0 THEN <<s>>
    ELSE <<SubSeq(s, 1, i - 1)>> \o split(Drop(s, i + 1), c)

\* str.split(c, 1): at most one split
split1(s, c) ==
    LET i == find_char(s, c) IN
    IF i = 0 THEN <<s>> ELSE <<SubSeq(s, 1, i - 1), Drop(s, i + 1)>>

\* the last index of character c in s, 0 when absent (str.rfind(c) + 1)
rfind_char(s, c) ==
    IF \E i \in 1..Len(s) : s[i] = c
    THEN CHOOSE i \in 1..Len(s) : s[i] = c /\ \A j \in (i + 1)..Len(s) : s[j] # c
    ELSE 0

\* str.splitlines() of a text whose only line break is "\n"
splitlines(text) ==
    LET parts == split(text, "\n") IN
    IF parts[Len(parts)] = <<>> THEN SubSeq(parts, 1, Len(parts) - 1) ELSE parts

\* str.replace(old, new): every occurrence, left to right
RECURSIVE str_replace(_, _, _)
str_replace(s, old, new) ==
    IF Len(s) < Len(old) \/ old = <<>> THEN s
    ELSE IF SubSeq(s, 1, Len(old)) = old
         THEN new \o str_replace(Drop(s, Len(old) + 1), old, new)
    ELSE <<Head(s)>> \o str_replace(Tail(s), old, new)

\* str.replace(old, new, 1): the first occurrence only
RECURSIVE str_replace_first(_, _, _)
str_replace_first(s, old, new) ==
    IF Len(s) < Len(old) \/ old = <<>> THEN s
    ELSE IF SubSeq(s, 1, Len(old)) = old
         THEN new \o Drop(s, Len(old) + 1)
    ELSE <<Head(s)>> \o str_replace_first(Tail(s), old, new)

\* c.join(parts)
RECURSIVE join(_, _)
join(parts, c) ==
    IF Len(parts) = 0 THEN <<>>
    ELSE IF Len(parts) = 1 THEN parts[1]
    ELSE parts[1] \o <<c>> \o join(Tail(parts), c)

\* s < t for Python strings: lexicographic by code point
RECURSIVE str_less(_, _)
str_less(s, t) ==
    IF t = <<>> THEN FALSE
    ELSE IF s = <<>> THEN TRUE
    ELSE IF Head(s) = Head(t) THEN str_less(Tail(s), Tail(t))
    ELSE ord[Head(s)] < ord[Head(t)]

\* sorted(xs) for a list of strings (stable insertion of each element)
RECURSIVE insert_sorted(_, _)
insert_sorted(x, xs) ==
    IF xs = <<>> THEN <<x>>
    ELSE IF str_less(x, Head(xs)) THEN <<x>> \o xs
    ELSE <<Head(xs)>> \o insert_sorted(x, Tail(xs))

RECURSIVE sort_from(_, _)
sort_from(xs, i) ==
    IF i = 0 THEN <<>> ELSE insert_sorted(xs[i], sort_from(xs, i - 1))

\* the list in the order it was built, with no sort
unsorted(xs) == xs

\* the list built by prepending each element, with no sort
prepended(xs) == [i \in 1..Len(xs) |-> xs[Len(xs) + 1 - i]]

\* sorted(xs)
sorted(xs) == sort_from(xs, Len(xs))

IsDigit(c) == ord[c] >= 48 /\ ord[c] <= 57
AllDigits(s, lo, hi) ==
    Len(s) >= lo /\ Len(s) <= hi /\ \A i \in 1..Len(s) : IsDigit(s[i])

(***************************************************************************)
(* String literals of the scripts                                          *)
(***************************************************************************)
S_DOMAIN == <<"D", "O", "M", "A", "I", "N">>
S_SUFFIX == <<"S", "U", "F", "F", "I", "X">>
S_REGEX == <<"R", "E", "G", "E", "X">>
S_URL == <<"U", "R", "L">>
S_IP == <<"I", "P">>
S_CIDR == <<"C", "I", "D", "R">>
S_DOMAIN_SUFFIX == S_DOMAIN \o <<"-">> \o S_SUFFIX
S_DOMAIN_REGEX == S_DOMAIN \o <<"-">> \o S_REGEX
S_URL_REGEX == S_URL \o <<"-">> \o S_REGEX
S_IP_CIDR == S_IP \o <<"-">> \o S_CIDR
S_IP_CIDR6 == S_IP_CIDR \o <<"6">>
S_IP_ASN == S_IP \o <<"-", "A", "S", "N">>
S_GEOIP == <<"G", "E", "O">> \o S_IP
S_NO_RESOLVE == <<"n", "o", "-", "r", "e", "s", "o", "l", "v", "e">>
S_DIRECT == <<"D", "I", "R", "E", "C", "T">>
S_PROXY == <<"P", "R", "O", "X", "Y">>
S_REJECT == <<"R", "E", "J", "E", "C", "T">>
S_RULE_HEADER == <<"[", "R", "u", "l", "e", "]">>

(***************************************************************************)
(* generate_rules.py                                                       *)
(***************************************************************************)

\* RULE_PRIORITY.get(rule_type, 0)
RULE_PRIORITY(rule_type) ==
    IF rule_type = S_URL_REGEX THEN 3
    ELSE IF rule_type = S_DOMAIN_REGEX THEN 3
    ELSE IF rule_type = S_DOMAIN_SUFFIX THEN 2
    ELSE IF rule_type = S_DOMAIN THEN 1
    ELSE 0

\* Python's None, and the test (not parsed)
None == <<>>

\* line.startswith(('#', ';', '//', '!'))
IsCommentLine(line) ==
    \/ startswith(line, <<"#">>)
    \/ startswith(line, <<";">>)
    \/ startswith(line, <<"/", "/">>)
    \/ startswith(line, <<"!">>)

\* re.match(r'^\d{1,3}\.\d{1,3}\.\d{1,3}\.\d{1,3}(?:/\d{1,2})?$', value)
LooksLikeIPv4(value) ==
    LET sl == split(value, "/")
        quad == split(sl[1], ".")
    IN /\ Len(sl) <= 2
       /\ Len(quad) = 4
       /\ \A i \in 1..4 : AllDigits(quad[i], 1, 3)
       /\ Len(sl) = 2 => AllDigits(sl[2], 1, 2)

\* parse_rule(line): <<rule_type, value>> or None
parse_rule(raw) ==
    LET line == strip(raw) IN
    IF line = <<>> \/ IsCommentLine(line) THEN None
    ELSE
        LET sp == split1(line, ",")
            parts == [i \in 1..Len(sp) |-> strip(sp[i])]
        IN IF Len(parts) = 2
           THEN IF parts[1] # <<>> /\ parts[2] # <<>>
                THEN <<str_upper(parts[1]), parts[2]>>
                ELSE None
           ELSE IF LooksLikeIPv4(parts[1]) THEN <<S_IP_CIDR, parts[1]>>
           ELSE IF str_contains(parts[1], <<":">>) /\ str_contains(parts[1], <<"/">>)
                THEN <<S_IP_CIDR6, parts[1]>>
           ELSE IF str_contains(parts[1], <<".">>) THEN <<S_DOMAIN, parts[1]>>
           ELSE None

\* normalized_value = value.lower() if "DOMAIN" in rule_type else value
normalized_value(rule_type, value) ==
    IF str_contains(rule_type, S_DOMAIN) THEN str_lower(value) ELSE value

\* the index of key in a dict kept as a sequence of entries, 0 when absent
dict_index(d, key) ==
    IF \E i \in 1..Len(d) : d[i].key = key
    THEN CHOOSE i \in 1..Len(d) : d[i].key = key
    ELSE 0

\* d[key] = (priority, rule): a new key is appended, an old key keeps its place
dict_set(d, key, priority, rule) ==
    LET i == dict_index(d, key)
        e == [key |-> key, priority |-> priority, rule |-> rule]
    IN IF i = 0 THEN Append(d, e) ELSE [d EXCEPT ![i] = e]

\* priority > current_priority with the comparison turned round
replaces_on_tie(priority, current_priority) == priority >= current_priority

\* the test that lets a rule replace the one stored under its value
pass1_replaces(priority, current_priority) == priority > current_priority

\* one iteration of the Pass 1 loop
pass1_step(d, rule_str) ==
    LET parsed == parse_rule(rule_str) IN
    IF parsed = None THEN d
    ELSE
        LET rule_type == parsed[1]
            value == parsed[2]
            priority == RULE_PRIORITY(rule_type)
            key == normalized_value(rule_type, value)
            i == dict_index(d, key)
            current_priority == IF i = 0 THEN -1 ELSE d[i].priority
        IN IF pass1_replaces(priority, current_priority)
           THEN dict_set(d, key, priority, rule_str)
           ELSE IF /\ priority = current_priority
                   /\ rule_type = S_DOMAIN_SUFFIX
                   /\ (S_DOMAIN \o <<",">> \o value) = rule_str
                THEN dict_set(d, key, priority, S_DOMAIN_SUFFIX \o <<",">> \o value)
                ELSE d

\* Pass 1: unique_rules_by_value after the first i rules
RECURSIVE pass1(_, _)
pass1(rs, i) == IF i = 0 THEN <<>> ELSE pass1_step(pass1(rs, i - 1), rs[i])

\* domain_suffix_priorities filtered on the priority instead of the rule type
suffixes_by_priority(unique) ==
    {<<str_lower(unique[i].key), unique[i].priority>> :
        i \in {j \in 1..Len(unique) : unique[j].priority >= 2}}

\* domain_suffix_priorities: lowercase suffix -> priority
domain_suffix_priorities(unique) ==
    {<<str_lower(unique[i].key), unique[i].priority>> :
        i \in {j \in 1..Len(unique) :
                 /\ parse_rule(unique[j].rule) # None
                 /\ parse_rule(unique[j].rule)[1] = S_DOMAIN_SUFFIX}}

\* '.'.join(parts[i+1:]) for i in range(len(parts) - 1)
parent_suffixes(domain_lower) ==
    LET parts == split(domain_lower, ".") IN
    {join(SubSeq(parts, i + 1, Len(parts)), ".") : i \in 1..(Len(parts) - 1)}

\* keep_rule of one Pass 2 iteration
keep_rule(entry, suffixes) ==
    LET parsed == parse_rule(entry.rule) IN
    IF parsed[1] = S_DOMAIN
    THEN ~ \E p \in parent_suffixes(str_lower(parsed[2])) :
             \E sp \in suffixes : sp[1] = p /\ sp[2] >= entry.priority
    ELSE TRUE

\* Pass 2: final_rules, the entries of Pass 1 that are kept
pass2(unique) ==
    LET suffixes == domain_suffix_priorities(unique) IN
    SelectSeq(unique, LAMBDA e : parse_rule(e.rule) # None /\ keep_rule(e, suffixes))

\* deduplicate_rules(rules)
deduplicate_rules(rs) ==
    LET final == pass2(pass1(rs, Len(rs))) IN
    sorted([i \in 1..Len(final) |-> final[i].rule])

\* the policy words re.sub removes at the end of a line (re.IGNORECASE)
PolicyWords == {S_DIRECT, S_PROXY, S_REJECT, str_upper(S_NO_RESOLVE)}

\* re.sub(r'\s*,\s*(DIRECT|PROXY|REJECT|no-resolve)\s*$', '', line, flags=re.IGNORECASE)
strip_policy(line) ==
    LET i == rfind_char(line, ",") IN
    IF i > 0 /\ str_upper(strip(Drop(line, i + 1))) \in PolicyWords
    THEN rstrip(SubSeq(line, 1, i - 1))
    ELSE line

\* stripped_line.startswith(('#', ';', '//'))
IsModuleComment(line) ==
    \/ startswith(line, <<"#">>)
    \/ startswith(line, <<";">>)
    \/ startswith(line, <<"/", "/">>)

\* the loop of process_gmoogway_module over lines[i..]: the rules appended
RECURSIVE gmoogway_loop(_, _, _)
gmoogway_loop(lines, i, in_rule_section) ==
    IF i > Len(lines) THEN <<>>
    ELSE
        LET stripped_line == strip(lines[i]) IN
        IF stripped_line = <<>> \/ IsModuleComment(stripped_line)
        THEN gmoogway_loop(lines, i + 1, in_rule_section)
        ELSE IF stripped_line = S_RULE_HEADER
        THEN gmoogway_loop(lines, i + 1, TRUE)
        ELSE IF ~ in_rule_section
        THEN gmoogway_loop(lines, i + 1, in_rule_section)
        ELSE
            LET rule_part == strip(strip_policy(stripped_line)) IN
            (IF rule_part # <<>> THEN <<rule_part>> ELSE <<>>)
                \o gmoogway_loop(lines, i + 1, in_rule_section)

\* an Optional[str]: <<>> is None, <<text>> is the text
IsNone(opt) == opt = <<>>

\* process_gmoogway_module(content), content an Optional[str]
process_gmoogway_module(content) ==
    IF IsNone(content) \/ content[1] = <<>> THEN <<>>
    ELSE gmoogway_loop(splitlines(content[1]), 1, FALSE)

\* read_custom_list(filepath): file is <<>> when there is no such file, else
\* <<lines>>
read_custom_list(file) ==
    IF IsNone(file) THEN <<>>
    ELSE LET stripped == [i \in 1..Len(file[1]) |-> strip(file[1][i])] IN
         SelectSeq(stripped, LAMBDA line : line # <<>> /\ ~ IsModuleComment(line))

\* line.startswith(('#', ';', '//', '[', '!', '{', '}'))
IsExternalMetadata(line) ==
    \/ IsModuleComment(line)
    \/ \E c \in {"[", "!", "{", "}"} : startswith(line, <<c>>)

\* the lines fetch_external_rules keeps of one fetched content
external_lines(content) ==
    IF IsNone(content) \/ content[1] = <<>> THEN <<>>
    ELSE LET lines == splitlines(content[1])
             stripped == [i \in 1..Len(lines) |-> strip(lines[i])]
         IN SelectSeq(stripped, LAMBDA line :
                /\ line # <<>>
                /\ ~ IsExternalMetadata(line)
                /\ \E c \in {",", ".", ":"} : str_contains(line, <<c>>))

\* fetch_external_rules: responses holds what fetch_url_content returned for
\* each URL of the list, in order (no list file: no URL)
RECURSIVE fetch_external_rules(_)
fetch_external_rules(responses) ==
    IF responses = <<>> THEN <<>>
    ELSE external_lines(Head(responses)) \o fetch_external_rules(Tail(responses))

\* convert_to_mihomo(rules) of generate_rules.py
convert_to_mihomo(rs) ==
    LET prefix == S_URL_REGEX \o <<",">> IN
    [i \in 1..Len(rs) |->
        IF startswith(rs[i], prefix)
        THEN S_DOMAIN_REGEX \o <<",">> \o Drop(rs[i], Len(prefix) + 1)
        ELSE rs[i]]

\* rule in xs, for a list or a set built from it
Contains(xs, x) == \E i \in 1..Len(xs) : xs[i] = x

\* final_sr_rules: the deduplicated rules, then the custom rules not among them
final_sr(dedup_rules, custom_rules) ==
    dedup_rules \o SelectSeq(custom_rules, LAMBDA r : ~ Contains(dedup_rules, r))

\* '\n'.join(lines) + '\n'
file_text(lines) == join(lines, "\n") \o <<"\n">>

(***************************************************************************)
(* process_rules.py                                                        *)
(***************************************************************************)

\* IP_TYPES
IP_TYPES == {S_IP_ASN, S_IP_CIDR, S_IP_CIDR6}

\* the rule process_rules appends for one line of the rule section
process_rule_line(line) ==
    LET parts == split(line, ",")
        rule_type == strip(parts[1])
        domain == strip(parts[2])
    IN IF rule_type \in IP_TYPES
       THEN rule_type \o <<",">> \o domain \o <<",">> \o S_NO_RESOLVE
       ELSE rule_type \o <<",">> \o domain

\* the loop of process_rules over lines[i..]: the rules appended
RECURSIVE process_rules_loop(_, _, _)
process_rules_loop(lines, i, in_rule_section) ==
    IF i > Len(lines) THEN <<>>
    ELSE
        LET line == strip(lines[i]) IN
        IF line = <<>> THEN process_rules_loop(lines, i + 1, in_rule_section)
        ELSE IF startswith(line, <<"#">>)
        THEN IF in_rule_section THEN <<>>
             ELSE process_rules_loop(lines, i + 1, in_rule_section)
        ELSE IF line = S_RULE_HEADER THEN process_rules_loop(lines, i + 1, TRUE)
        ELSE IF in_rule_section /\ Len(split(line, ",")) >= 2
        THEN <<process_rule_line(line)>> \o process_rules_loop(lines, i + 1, in_rule_section)
        ELSE process_rules_loop(lines, i + 1, in_rule_section)

\* process_rules(lines)
process_rules(lines) == process_rules_loop(lines, 1, FALSE)

\* read_file(file_path): file is <<>> when the path does not exist, else <<lines>>
read_file(file) ==
    IF IsNone(file) THEN <<>>
    ELSE LET stripped == [i \in 1..Len(file[1]) |-> strip(file[1][i])] IN
         SelectSeq(stripped, LAMBDA line : line # <<>>)

\* set(xs)
ToSet(xs) == {xs[i] : i \in 1..Len(xs)}

\* sorted(list(S)) for a set of strings
RECURSIVE sorted_set(_)
sorted_set(S) ==
    IF S = {} THEN <<>>
    ELSE LET least == CHOOSE x \in S : \A y \in S \ {x} : str_less(x, y) IN
         <<least>> \o sorted_set(S \ {least})

\* apply_customizations(rules, append_list, exclude_list)
apply_customizations(rs, appends, excludes) ==
    sorted_set((ToSet(rs) \cup ToSet(appends)) \ ToSet(excludes))

\* convert_to_mihomo(rules) of process_rules.py
S_DOMAIN_REGEX_UNDERSCORE == S_DOMAIN \o <<"_">> \o S_REGEX

process_convert_to_mihomo(rs) ==
    [i \in 1..Len(rs) |->
        IF startswith(rs[i], S_URL_REGEX)
        THEN str_replace_first(rs[i], S_URL_REGEX, S_DOMAIN_REGEX_UNDERSCORE)
        ELSE rs[i]]

(***************************************************************************)
(* update_rules.py                                                         *)
(***************************************************************************)

\* fetch_and_clean(url, remove_suffix): lines is response.text.splitlines()
fetch_and_clean(lines, remove_suffix) ==
    LET kept == SelectSeq(lines, LAMBDA rule : ~ str_contains(rule, S_RULE_HEADER)) IN
    [i \in 1..Len(kept) |-> str_replace(kept[i], remove_suffix, <<>>)]

\* the set merge_and_deduplicate sorts: the custom rules and the cleaned rules
\* of every URL
RECURSIVE cleaned_union(_, _)
cleaned_union(responses, remove_suffix) ==
    IF responses = <<>> THEN {}
    ELSE ToSet(fetch_and_clean(splitlines(Head(responses)), remove_suffix))
            \cup cleaned_union(Tail(responses), remove_suffix)

merged_set(custom_file, responses, rule_type) ==
    (IF IsNone(custom_file) THEN {} ELSE ToSet(splitlines(custom_file[1])))
        \cup cleaned_union(responses, <<",">> \o rule_type)

\* the sort key (startswith URL-REGEX, startswith DOMAIN-SUFFIX, startswith DOMAIN)
merge_key(x) ==
    <<startswith(x, S_URL_REGEX), startswith(x, S_DOMAIN_SUFFIX), startswith(x, S_DOMAIN)>>

\* key(x) > key(y): tuples of booleans compared left to right, False < True
RECURSIVE key_greater(_, _)
key_greater(a, b) ==
    IF a = <<>> THEN FALSE
    ELSE IF Head(a) = Head(b) THEN key_greater(Tail(a), Tail(b))
    ELSE Head(a)

\* the lists sorted(merged_rules, key=..., reverse=True) can return: the set in
\* any order (a set of str iterates in hash order) with the keys descending
merge_orders(S) ==
    {out \in [1..Cardinality(S) -> S] :
        /\ ToSet(out) = S
        /\ \A i \in 1..(Len(out) - 1) : ~ key_greater(merge_key(out[i + 1]), merge_key(out[i]))}

\* rule + ',no-resolve' if 'IP-CIDR' in rule else rule
add_no_resolve(rs) ==
    [i \in 1..Len(rs) |->
        IF str_contains(rs[i], S_IP_CIDR)
        THEN rs[i] \o <<",">> \o S_NO_RESOLVE
        ELSE rs[i]]

\* rule.replace('URL-REGEX', 'DOMAIN-REGEX') for every rule
update_to_mihomo(rs) ==
    [i \in 1..Len(rs) |-> str_replace(rs[i], S_URL_REGEX, S_DOMAIN_REGEX)]

(***************************************************************************)
(* Rule lines the runs are fed with                                        *)
(***************************************************************************)
example_com == <<"e", "x", "a", "m", "p", "l", "e", ".", "c", "o", "m">>
example_org == <<"e", "x", "a", "m", "p", "l", "e", ".", "o", "r", "g">>
Example_org == <<"E", "x", "a", "m", "p", "l", "e", ".", "o", "r", "g">>
mail_example_com == <<"m", "a", "i", "l", ".">> \o example_com
ads_example_com == <<"a", "d", "s", ".">> \o example_com
ten_slash_8 == <<"1", "0", ".", "0", ".", "0", ".", "0", "/", "8">>
ads_pattern == <<"^", "a", "d", "s", "\\", ".">>
S_DOMAIN_KEYWORD == S_DOMAIN \o <<"-", "K", "E", "Y", "W", "O", "R", "D">>

Rule(kind, value) == kind \o <<",">> \o value

\* suffix, pattern and domain rules around one value
SuffixPool ==
    { Rule(S_DOMAIN_SUFFIX, example_com),
      Rule(S_URL_REGEX, example_com),
      Rule(S_DOMAIN, mail_example_com),
      Rule(S_DOMAIN, example_com),
      Rule(S_DOMAIN, example_org) }

\* one value in two casings and under an unknown kind, and a comment line
TiePool ==
    { Rule(S_DOMAIN, example_org),
      Rule(S_DOMAIN, Example_org),
      Rule(S_DOMAIN_KEYWORD, example_org),
      Rule(S_DOMAIN_SUFFIX, example_com),
      <<"#", " ", "x">> }

\* an IP rule with and without a modifier, a pattern and a domain it matches,
\* next to a suffix rule and a domain it does not cover
ModifierPool ==
    { Rule(S_IP_CIDR, ten_slash_8),
      Rule(S_IP_CIDR, ten_slash_8 \o <<",">> \o S_NO_RESOLVE),
      Rule(S_URL_REGEX, ads_pattern),
      Rule(S_DOMAIN, ads_example_com),
      Rule(S_DOMAIN, example_org),
      Rule(S_DOMAIN_SUFFIX, example_com) }

RulePools == {SuffixPool, TiePool, ModifierPool}

\* the longest list of rules a run is given
MaxRules == 3

SeqsUpTo(S, n) == UNION {[1..k -> S] : k \in 0..n}

(***************************************************************************)
(* deduplicate_rules: calls on a list, on its own result, on a reordering  *)
(***************************************************************************)
\* the variables a specification does not use
IdleCall == rules = <<>> /\ deduped = <<>> /\ prev = <<>>

IdleRun ==
    /\ env = <<>> /\ category = 0
    /\ sr_files = <<>> /\ mh_files = <<>> /\ exit_status = <<>>

IdleGenerate ==
    /\ overall_success = TRUE /\ base_content = <<>>
    /\ processed_base_rules = <<>> /\ external_rules = <<>>
    /\ deduplicated_rules = <<>> /\ custom_list_rules = <<>>
    /\ final_sr_rules = <<>> /\ final_mihomo_rules = <<>>

IdleProcess ==
    /\ source_lines = <<>> /\ main_rules = <<>>
    /\ append_list = <<>> /\ exclude_list = <<>>

IdleOutput == final_rules = <<>> /\ mihomo_rules = <<>> /\ merged_rules = <<>>

Init ==
    /\ pc = "start"
    /\ \E pool \in RulePools : rules \in SeqsUpTo(pool, MaxRules)
    /\ deduped = <<>>
    /\ prev = <<>>
    /\ IdleRun /\ IdleGenerate /\ IdleProcess /\ IdleOutput

\* deduplicate_rules(rules)
Deduplicate ==
    /\ pc = "start"
    /\ deduped' = deduplicate_rules(rules)
    /\ pc' = "deduped"
    /\ UNCHANGED <<rules, prev, runVars, generateVars, processVars, outputVars>>

\* deduplicate_rules on the list the last call returned
Rerun ==
    /\ pc # "start"
    /\ rules' = deduped
    /\ prev' = deduped
    /\ deduped' = deduplicate_rules(deduped)
    /\ pc' = "rerun"
    /\ UNCHANGED <<runVars, generateVars, processVars, outputVars>>

\* deduplicate_rules on the same lines in another order (two neighbours swapped)
Reorder ==
    /\ pc # "start"
    /\ \E i \in 1..(Len(rules) - 1) :
          /\ rules[i] # rules[i + 1]
          /\ rules' = [rules EXCEPT ![i] = rules[i + 1], ![i + 1] = rules[i]]
    /\ prev' = deduped
    /\ deduped' = deduplicate_rules(rules')
    /\ pc' = "reordered"
    /\ UNCHANGED <<runVars, generateVars, processVars, outputVars>>

Next == Deduplicate \/ Rerun \/ Reorder

Spec == Init /\ [][Next]_vars

(***************************************************************************)
(* The three categories and what their feeds and custom files hold         *)
(***************************************************************************)
\* for rule_type_key in ["direct", "proxy", "reject"]
Categories == <<"direct", "proxy", "reject">>

\* rule_type.upper() of update_rules.generate_rule_files
CategoryUpper == <<S_DIRECT, S_PROXY, S_REJECT>>

NumCategories == Len(Categories)

foo_example_com == <<"f", "o", "o", ".">> \o example_com
special_example_com == <<"s", "p", "e", "c", "i", "a", "l", ".">> \o example_com
other_net == <<"o", "t", "h", "e", "r", ".", "n", "e", "t">>
S_HEADER_COMMENT == <<"#", "!", "n", "a", "m", "e", "=", "x">>

WithField(line, field) == line \o <<",">> \o field

\* a text of the given lines, each ended by a line break
Text(lines) == file_text(lines)

\* the baseline feed of the end-to-end scenario
ScenarioFeed ==
    join(<<S_RULE_HEADER,
           WithField(Rule(S_DOMAIN_SUFFIX, example_com), S_DIRECT),
           WithField(Rule(S_DOMAIN, foo_example_com), S_DIRECT),
           WithField(Rule(S_DOMAIN, other_net), S_DIRECT)>>, "\n")

\* a feed with a header comment, an IP rule that carries no-resolve, a pattern
\* and a suffix rule
MixedFeed ==
    Text(<<S_HEADER_COMMENT,
           S_RULE_HEADER,
           WithField(Rule(S_DOMAIN_SUFFIX, other_net), S_PROXY),
           WithField(Rule(S_IP_CIDR, ten_slash_8), S_NO_RESOLVE),
           WithField(Rule(S_URL_REGEX, ads_pattern), S_REJECT)>>)

\* a supplemental list: a comment, a rule, a bare domain, an IP rule
SupplementalText ==
    Text(<<<<"#", " ", "x">>,
           Rule(S_DOMAIN, ads_example_com),
           example_org,
           WithField(Rule(S_IP_CIDR, ten_slash_8), S_NO_RESOLVE)>>)

\* generate_rules.py: base is what fetch_url_content(base_url) returns,
\* responses what it returns for each URL of custom/<key>-url.list, custom the
\* lines of custom/<key>.list
GenerateEnvs ==
    { [base |-> <<>>, responses |-> <<>>, custom |-> <<>>],
      [base |-> <<<<>>>>, responses |-> <<>>, custom |-> <<>>],
      [base |-> <<ScenarioFeed>>, responses |-> <<>>,
       custom |-> <<<<Rule(S_DOMAIN, special_example_com)>>>>],
      [base |-> <<MixedFeed>>, responses |-> <<<<SupplementalText>>, <<>>>>,
       custom |-> <<<<WithField(Rule(S_IP_CIDR, ten_slash_8), S_NO_RESOLVE),
                      <<"#", " ", "x">>,
                      Rule(S_DOMAIN, ads_example_com)>>>>] }

\* process_rules.py: source is the text fetch_rules gets (<<>>: it raises),
\* append and excludes the lines of the two custom files
ProcessEnvs ==
    { [source |-> <<>>, append |-> <<>>, excludes |-> <<>>],
      [source |-> <<<<>>>>, append |-> <<>>, excludes |-> <<>>],
      [source |-> <<ScenarioFeed>>,
       append |-> <<<<Rule(S_DOMAIN, special_example_com)>>>>,
       excludes |-> <<<<Rule(S_DOMAIN, other_net)>>>>],
      [source |-> <<MixedFeed>>,
       append |-> <<<<Rule(S_DOMAIN, other_net), Rule(S_IP_CIDR, ten_slash_8)>>>>,
       excludes |-> <<<<Rule(S_DOMAIN, other_net)>>>>] }

\* update_rules.py: custom is the text of custom/<type>.list, responses what
\* requests.get returns for each URL of custom/<type>-url.list (<<>>: it raises)
UpdateEnvs ==
    { [custom |-> <<>>, responses |-> <<>>],
      [custom |-> <<Text(<<WithField(Rule(S_IP_CIDR, ten_slash_8), S_NO_RESOLVE),
                           Rule(S_DOMAIN, example_org)>>)>>,
       responses |-> <<<<ScenarioFeed>>>>],
      [custom |-> <<Text(<<Rule(S_URL_REGEX, ads_pattern),
                           Rule(S_IP_CIDR, ten_slash_8),
                           WithField(Rule(S_IP_CIDR, ten_slash_8), S_NO_RESOLVE)>>)>>,
       responses |-> <<>>],
      [custom |-> <<Text(<<Rule(S_DOMAIN, ads_example_com)>>)>>,
       responses |-> <<<<MixedFeed>>, <<>>>>] }

NoFiles == [c \in 1..NumCategories |-> <<>>]

\* the next position of the loop over the categories
NextCategory(c) == c + 1

(***************************************************************************)
(* generate_rules.py: main                                                 *)
(***************************************************************************)
GenInit ==
    /\ pc = "fetch"
    /\ env \in [1..NumCategories -> GenerateEnvs]
    /\ category = 1
    /\ sr_files = NoFiles /\ mh_files = NoFiles
    /\ exit_status = <<>>
    /\ IdleGenerate /\ IdleCall /\ IdleProcess /\ IdleOutput

\* step 1, the base module cannot be fetched: the category is skipped
GenFetchFailed ==
    /\ pc = "fetch" /\ category <= NumCategories
    /\ IsNone(env[category].base)
    /\ base_content' = env[category].base
    /\ overall_success' = FALSE
    /\ category' = NextCategory(category)
    /\ UNCHANGED <<pc, env, sr_files, mh_files, exit_status, processed_base_rules,
                   external_rules, deduplicated_rules, custom_list_rules,
                   final_sr_rules, final_mihomo_rules, callVars, processVars, outputVars>>

\* steps 1 to 4: the base module, the external rules, the deduplication
GenDeduplicate ==
    /\ pc = "fetch" /\ category <= NumCategories
    /\ ~ IsNone(env[category].base)
    /\ base_content' = env[category].base
    /\ processed_base_rules' = process_gmoogway_module(base_content')
    /\ external_rules' = fetch_external_rules(env[category].responses)
    /\ deduplicated_rules' = deduplicate_rules(processed_base_rules' \o external_rules')
    /\ pc' = "custom"
    /\ UNCHANGED <<runVars, overall_success, custom_list_rules, final_sr_rules,
                   final_mihomo_rules, callVars, processVars, outputVars>>

\* steps 5 and 6: the custom list is appended without deduplication
GenCustomize ==
    /\ pc = "custom"
    /\ custom_list_rules' = read_custom_list(env[category].custom)
    /\ final_sr_rules' = final_sr(deduplicated_rules, custom_list_rules')
    /\ pc' = "write_sr"
    /\ UNCHANGED <<runVars, overall_success, base_content, processed_base_rules,
                   external_rules, deduplicated_rules, final_mihomo_rules,
                   callVars, processVars, outputVars>>

\* step 7: the Shadowrocket list is written, or the write raises
GenWriteShadowrocket ==
    /\ pc = "write_sr"
    /\ \E written \in BOOLEAN :
          IF written
          THEN /\ sr_files' = [sr_files EXCEPT ![category] = <<file_text(final_sr_rules)>>]
               /\ UNCHANGED overall_success
          ELSE /\ overall_success' = FALSE
               /\ UNCHANGED sr_files
    /\ pc' = "write_mh"
    /\ UNCHANGED <<env, category, mh_files, exit_status, base_content,
                   processed_base_rules, external_rules, deduplicated_rules,
                   custom_list_rules, final_sr_rules, final_mihomo_rules,
                   callVars, processVars, outputVars>>

\* steps 8 and 9: the Mihomo list is converted and written, or the write raises
GenWriteMihomo ==
    /\ pc = "write_mh"
    /\ final_mihomo_rules' = convert_to_mihomo(final_sr_rules)
    /\ \E written \in BOOLEAN :
          IF written
          THEN /\ mh_files' = [mh_files EXCEPT ![category] = <<file_text(final_mihomo_rules')>>]
               /\ UNCHANGED overall_success
          ELSE /\ overall_success' = FALSE
               /\ UNCHANGED mh_files
    /\ category' = NextCategory(category)
    /\ pc' = "fetch"
    /\ UNCHANGED <<env, sr_files, exit_status, base_content, processed_base_rules,
                   external_rules, deduplicated_rules, custom_list_rules,
                   final_sr_rules, callVars, processVars, outputVars>>

\* sys.exit(1) if not overall_success else sys.exit(0)
GenExit ==
    /\ pc = "fetch" /\ category > NumCategories
    /\ exit_status' = <<IF overall_success THEN 0 ELSE 1>>
    /\ pc' = "exited"
    /\ UNCHANGED <<env, category, sr_files, mh_files, generateVars,
                   callVars, processVars, outputVars>>

GenNext ==
    \/ GenFetchFailed
    \/ GenDeduplicate
    \/ GenCustomize
    \/ GenWriteShadowrocket
    \/ GenWriteMihomo
    \/ GenExit

SpecGenerate == GenInit /\ [][GenNext]_vars

(***************************************************************************)
(* process_rules.py: main                                                  *)
(***************************************************************************)
ProcInit ==
    /\ pc = "fetch"
    /\ env \in [1..NumCategories -> ProcessEnvs]
    /\ category = 1
    /\ sr_files = NoFiles /\ mh_files = NoFiles
    /\ exit_status = <<>>
    /\ IdleProcess /\ IdleOutput /\ IdleCall /\ IdleGenerate

\* an exception nothing catches ends the process with status 1
Crash ==
    /\ pc' = "crashed"
    /\ exit_status' = <<1>>

\* fetch_rules raises (requests.get or raise_for_status)
ProcFetchRaises ==
    /\ pc = "fetch" /\ category <= NumCategories
    /\ IsNone(env[category].source)
    /\ Crash
    /\ UNCHANGED <<env, category, sr_files, mh_files, processVars, outputVars,
                   callVars, generateVars>>

\* source_lines = fetch_rules(...); rules = process_rules(source_lines)
ProcProcessRules ==
    /\ pc = "fetch" /\ category <= NumCategories
    /\ ~ IsNone(env[category].source)
    /\ source_lines' = splitlines(env[category].source[1])
    /\ main_rules' = process_rules(source_lines')
    /\ pc' = "custom"
    /\ UNCHANGED <<runVars, append_list, exclude_list, outputVars, callVars, generateVars>>

\* the two custom files are read and apply_customizations is called
ProcCustomize ==
    /\ pc = "custom"
    /\ append_list' = read_file(env[category].append)
    /\ exclude_list' = read_file(env[category].excludes)
    /\ final_rules' = apply_customizations(main_rules, append_list', exclude_list')
    /\ pc' = "write_sr"
    /\ UNCHANGED <<runVars, source_lines, main_rules, mihomo_rules, merged_rules,
                   callVars, generateVars>>

\* the Shadowrocket file is written, or open/write raises
ProcWriteShadowrocket ==
    /\ pc = "write_sr"
    /\ \E written \in BOOLEAN :
          IF written
          THEN /\ sr_files' = [sr_files EXCEPT ![category] = <<file_text(final_rules)>>]
               /\ pc' = "write_mh"
               /\ UNCHANGED exit_status
          ELSE /\ Crash
               /\ UNCHANGED sr_files
    /\ UNCHANGED <<env, category, mh_files, processVars, outputVars, callVars, generateVars>>

\* the rules are converted and the Mihomo file is written, or open/write raises
ProcWriteMihomo ==
    /\ pc = "write_mh"
    /\ mihomo_rules' = process_convert_to_mihomo(final_rules)
    /\ \E written \in BOOLEAN :
          IF written
          THEN /\ mh_files' = [mh_files EXCEPT ![category] = <<file_text(mihomo_rules')>>]
               /\ category' = NextCategory(category)
               /\ pc' = "fetch"
               /\ UNCHANGED exit_status
          ELSE /\ Crash
               /\ UNCHANGED <<mh_files, category>>
    /\ UNCHANGED <<env, sr_files, processVars, final_rules, merged_rules,
                   callVars, generateVars>>

\* main returns: the interpreter exits with status 0
ProcExit ==
    /\ pc = "fetch" /\ category > NumCategories
    /\ exit_status' = <<0>>
    /\ pc' = "exited"
    /\ UNCHANGED <<env, category, sr_files, mh_files, processVars, outputVars,
                   callVars, generateVars>>

ProcNext ==
    \/ ProcFetchRaises
    \/ ProcProcessRules
    \/ ProcCustomize
    \/ ProcWriteShadowrocket
    \/ ProcWriteMihomo
    \/ ProcExit

SpecProcess == ProcInit /\ [][ProcNext]_vars

(***************************************************************************)
(* update_rules.py: generate_rule_files                                    *)
(***************************************************************************)
UpdInit ==
    /\ pc = "merge"
    /\ env \in [1..NumCategories -> UpdateEnvs]
    /\ category = 1
    /\ sr_files = NoFiles /\ mh_files = NoFiles
    /\ exit_status = <<>>
    /\ IdleOutput /\ IdleProcess /\ IdleCall /\ IdleGenerate

Responses(c) == env[c].responses

\* requests.get raises for one of the URLs
UpdFetchRaises ==
    /\ pc = "merge" /\ category <= NumCategories
    /\ \E i \in 1..Len(Responses(category)) : IsNone(Responses(category)[i])
    /\ Crash
    /\ UNCHANGED <<env, category, sr_files, mh_files, outputVars, processVars,
                   callVars, generateVars>>

\* final_rules = merge_and_deduplicate(...), then the no-resolve annotation
UpdMerge ==
    /\ pc = "merge" /\ category <= NumCategories
    /\ \A i \in 1..Len(Responses(category)) : ~ IsNone(Responses(category)[i])
    /\ \E out \in merge_orders(
            merged_set(env[category].custom,
                       [i \in 1..Len(Responses(category)) |-> Responses(category)[i][1]],
                       CategoryUpper[category])) :
          /\ merged_rules' = out
          /\ final_rules' = add_no_resolve(out)
    /\ pc' = "write_sr"
    /\ UNCHANGED <<runVars, mihomo_rules, processVars, callVars, generateVars>>

\* '\n'.join(final_rules) is written to shadowrocket/<type>.list
UpdWriteShadowrocket ==
    /\ pc = "write_sr"
    /\ \E written \in BOOLEAN :
          IF written
          THEN /\ sr_files' = [sr_files EXCEPT ![category] = <<join(final_rules, "\n")>>]
               /\ pc' = "write_mh"
               /\ UNCHANGED exit_status
          ELSE /\ Crash
               /\ UNCHANGED sr_files
    /\ UNCHANGED <<env, category, mh_files, outputVars, processVars, callVars, generateVars>>

\* the Mihomo rules are derived and written to mihomo/<type>.list
UpdWriteMihomo ==
    /\ pc = "write_mh"
    /\ mihomo_rules' = update_to_mihomo(final_rules)
    /\ \E written \in BOOLEAN :
          IF written
          THEN /\ mh_files' = [mh_files EXCEPT ![category] = <<join(mihomo_rules', "\n")>>]
               /\ category' = NextCategory(category)
               /\ pc' = "merge"
               /\ UNCHANGED exit_status
          ELSE /\ Crash
               /\ UNCHANGED <<mh_files, category>>
    /\ UNCHANGED <<env, sr_files, final_rules, merged_rules, processVars,
                   callVars, generateVars>>

\* generate_rule_files returns: the interpreter exits with status 0
UpdExit ==
    /\ pc = "merge" /\ category > NumCategories
    /\ exit_status' = <<0>>
    /\ pc' = "exited"
    /\ UNCHANGED <<env, category, sr_files, mh_files, outputVars, processVars,
                   callVars, generateVars>>

UpdNext ==
    \/ UpdFetchRaises
    \/ UpdMerge
    \/ UpdWriteShadowrocket
    \/ UpdWriteMihomo
    \/ UpdExit

SpecUpdate == UpdInit /\ [][UpdNext]_vars

(***************************************************************************)
(* Vocabulary of the properties                                            *)
(***************************************************************************)
\* parse_rule, tabulated over the lines of the pools
Parsed == [line \in UNION RulePools |-> parse_rule(line)]

Parses(line) == Parsed[line] # None
Kind(line) == Parsed[line][1]
Value(line) == Parsed[line][2]
Rank(line) == RULE_PRIORITY(Kind(line))

\* the normalized value of a parseable line
Key(line) == normalized_value(Kind(line), Value(line))

Inputs == {i \in 1..Len(rules) : Parses(rules[i])}
Outputs == 1..Len(deduped)

\* DOMAIN-SUFFIX(s) covers DOMAIN(d): d equals s or d ends with "." + s
SuffixCovers(s, d) == d = s \/ endswith(d, <<".">> \o s)

IsPatternKind(kind) == kind \in {S_URL_REGEX, S_DOMAIN_REGEX}

\* a call of deduplicate_rules(rules) has returned deduped
Returned == pc # "start"

\* the output holds a DOMAIN rule for the domain d (compared in lower case)
HasDomainRule(d) ==
    \E k \in Outputs :
        /\ Kind(deduped[k]) = S_DOMAIN
        /\ str_lower(Value(deduped[k])) = str_lower(d)

\* C1: whenever the input holds DOMAIN-SUFFIX,s and DOMAIN,d with d equal to s
\* or ending with "." + s (in lower case), the output holds no DOMAIN rule
\* for d, whatever else the input holds.
C1_SuffixCoverage ==
    Returned =>
        \A i \in Inputs, j \in Inputs :
            ( /\ Kind(rules[i]) = S_DOMAIN_SUFFIX
              /\ Kind(rules[j]) = S_DOMAIN
              /\ SuffixCovers(str_lower(Value(rules[i])), str_lower(Value(rules[j]))) )
            => ~ HasDomainRule(Value(rules[j]))

\* C2: an uncovered DOMAIN rule is never dropped: if no DOMAIN-SUFFIX of the
\* input covers d and no pattern-kind rule of the input has the normalized
\* value d, the output holds a DOMAIN rule whose lowercased value is d.
C2_UncoveredKept ==
    Returned =>
        \A j \in Inputs :
            ( /\ Kind(rules[j]) = S_DOMAIN
              /\ ~ \E i \in Inputs :
                     /\ Kind(rules[i]) = S_DOMAIN_SUFFIX
                     /\ SuffixCovers(str_lower(Value(rules[i])),
                                     str_lower(Value(rules[j])))
              /\ ~ \E i \in Inputs :
                     /\ IsPatternKind(Kind(rules[i]))
                     /\ Key(rules[i]) = Key(rules[j]) )
            => HasDomainRule(Value(rules[j]))

\* C2 witness: DOMAIN-SUFFIX,example.com and DOMAIN,example.org went in and
\* both came out.
C2_Witness ==
    /\ Returned
    /\ \E i \in Inputs : rules[i] = Rule(S_DOMAIN_SUFFIX, example_com)
    /\ \E j \in Inputs : rules[j] = Rule(S_DOMAIN, example_org)
    /\ \E k \in Outputs : deduped[k] = Rule(S_DOMAIN_SUFFIX, example_com)
    /\ \E k \in Outputs : deduped[k] = Rule(S_DOMAIN, example_org)

\* the highest rank among the input lines whose normalized value is v
BestRank(v) ==
    CHOOSE r \in 0..3 :
        /\ \E i \in Inputs : Key(rules[i]) = v /\ Rank(rules[i]) = r
        /\ \A i \in Inputs : Key(rules[i]) = v => Rank(rules[i]) <= r

\* the first input line of the highest rank for v
FirstBest(v) ==
    CHOOSE i \in Inputs :
        /\ Key(rules[i]) = v /\ Rank(rules[i]) = BestRank(v)
        /\ \A j \in Inputs :
              (Key(rules[j]) = v /\ Rank(rules[j]) = BestRank(v)) => i <= j

\* C3: for every normalized value v of the input the output holds at most one
\* rule with value v, and that rule is the first-seen input line among those
\* of the highest RULE_PRIORITY rank present for v.
C3_OnePerValue ==
    Returned =>
        \A i \in Inputs :
            LET v == Key(rules[i])
                kept == {k \in Outputs : Key(deduped[k]) = v}
            IN /\ Cardinality(kept) <= 1
               /\ \A k \in kept : deduped[k] = rules[FirstBest(v)]

\* C3 witness: a value carried by two kinds and by two equal-rank lines of
\* different text, with a rule for it in the output.
C3_Witness ==
    /\ Returned
    /\ \E i \in Inputs, j \in Inputs, k \in Inputs :
          /\ Key(rules[i]) = Key(rules[j]) /\ Key(rules[j]) = Key(rules[k])
          /\ i < j /\ Rank(rules[i]) < Rank(rules[j])
          /\ Rank(rules[j]) = Rank(rules[k]) /\ j < k /\ rules[j] # rules[k]
          /\ \E o \in Outputs : deduped[o] = rules[j]

\* C4: deduplicate_rules applied to its own result returns that result.
C4_Idempotent == pc = "rerun" => deduped = prev

\* C4 witness: a second call on a result that holds a suffix rule, a domain
\* rule and a third rule.
C4_Witness ==
    /\ pc = "rerun"
    /\ Len(prev) >= 3
    /\ \E k \in 1..Len(prev) : Kind(prev[k]) = S_DOMAIN_SUFFIX
    /\ \E k \in 1..Len(prev) : Kind(prev[k]) = S_DOMAIN

\* C5 as stated: a reordering of the input never changes the returned list.
C5_OrderIndependent == pc = "reordered" => deduped = prev

\* the normalized values of a returned list, each with the rank of its rule
KeyRanks(out) == {<<Key(out[k]), Rank(out[k])>> : k \in 1..Len(out)}

\* no two input lines of different text share normalized value and rank
NoTies ==
    \A i \in Inputs, j \in Inputs :
        (Key(rules[i]) = Key(rules[j]) /\ Rank(rules[i]) = Rank(rules[j]))
        => rules[i] = rules[j]

\* C5 amended: a reordering of the input leaves the normalized values of the
\* returned list and the rank kept for each unchanged, and leaves the list
\* itself unchanged when no two input lines of different text share
\* normalized value and rank.
C5_OrderIndependentUpToTies ==
    pc = "reordered" =>
        /\ KeyRanks(deduped) = KeyRanks(prev)
        /\ NoTies => deduped = prev

\* C5 witness: a reordered call without ties that returned three rules.
C5_Witness ==
    /\ pc = "reordered"
    /\ NoTies
    /\ Len(deduped) >= 3

\* field 1 of a line split at every comma, normalized like a value
Field1(line) ==
    LET f == split(strip(line), ",") IN
    normalized_value(Kind(line), strip(f[2]))

\* C8: input lines of one kind whose field 1 is the same after normalization
\* are exact duplicates whatever their trailing modifiers: the output holds
\* at most one rule for them, the first-seen one.
C8_ModifiersNotIdentity ==
    Returned =>
        \A i \in Inputs :
            LET same(l) == /\ Parses(l)
                           /\ Kind(l) = Kind(rules[i])
                           /\ Field1(l) = Field1(rules[i])
                first == CHOOSE a \in Inputs :
                            same(rules[a]) /\ \A b \in Inputs : same(rules[b]) => a <= b
                kept == {k \in Outputs : same(deduped[k])}
            IN /\ Cardinality(kept) <= 1
               /\ \A k \in kept : deduped[k] = rules[first]

\* re.search(p, d) for patterns made of ^, $, ., escaped and plain characters
RECURSIVE re_match_here(_, _)
re_match_here(p, d) ==
    IF p = <<>> THEN TRUE
    ELSE IF p = <<"$">> THEN d = <<>>
    ELSE IF Head(p) = "\\" /\ Len(p) >= 2
         THEN d # <<>> /\ Head(d) = p[2] /\ re_match_here(Drop(p, 3), Tail(d))
    ELSE IF Head(p) = "." THEN d # <<>> /\ re_match_here(Tail(p), Tail(d))
    ELSE d # <<>> /\ Head(d) = Head(p) /\ re_match_here(Tail(p), Tail(d))

re_search(p, d) ==
    IF p # <<>> /\ Head(p) = "^" THEN re_match_here(Tail(p), d)
    ELSE \E i \in 1..(Len(d) + 1) : re_match_here(p, Drop(d, i))

\* C10: when the input holds URL-REGEX,p and DOMAIN,d and the pattern p
\* matches d, the output holds no DOMAIN rule for d and holds the URL-REGEX
\* rule.
C10_PatternCoverage ==
    Returned =>
        \A i \in Inputs, j \in Inputs :
            ( /\ Kind(rules[i]) = S_URL_REGEX
              /\ Kind(rules[j]) = S_DOMAIN
              /\ re_search(Value(rules[i]), Value(rules[j])) )
            => /\ ~ HasDomainRule(Value(rules[j]))
               /\ \E k \in Outputs :
                     Kind(deduped[k]) = S_URL_REGEX /\ Value(deduped[k]) = Value(rules[i])

\* the normalized value of any line parse_rule accepts
LineKey(line) ==
    LET parsed == parse_rule(line) IN normalized_value(parsed[1], parsed[2])

\* process_rules.main has applied the customizations of the current category
Customized == pc = "write_sr"

\* C6: after the customization step the final output holds no rule whose
\* normalized value equals the value of an excluded entry, whatever the kind
\* of the rule and even if it was appended; and every appended line that is
\* not excluded is in the final output.
C6_ExcludeAppendPrecedence ==
    Customized =>
        /\ \A e \in 1..Len(exclude_list), k \in 1..Len(final_rules) :
              (parse_rule(exclude_list[e]) # None /\ parse_rule(final_rules[k]) # None)
              => LineKey(final_rules[k]) # LineKey(exclude_list[e])
        /\ \A a \in 1..Len(append_list) :
              ~ Contains(exclude_list, append_list[a])
              => Contains(final_rules, append_list[a])

\* the number of no-resolve modifiers a rule line carries after its value
NoResolveCount(line) ==
    LET fields == split(line, ",") IN
    Cardinality({i \in 3..Len(fields) : str_lower(strip(fields[i])) = S_NO_RESOLVE})

IsIPRule(line) == parse_rule(line) # None /\ parse_rule(line)[1] \in IP_TYPES

\* update_rules.generate_rule_files has annotated the rules of the category
Annotated == pc = "write_sr"

\* C7: every IP-kind rule of the emitted list carries no-resolve exactly once,
\* whether or not the input line carried it, and annotating the emitted list
\* again changes nothing.
C7_NoResolveOnce ==
    Annotated =>
        /\ \A k \in 1..Len(final_rules) :
              IsIPRule(final_rules[k]) => NoResolveCount(final_rules[k]) = 1
        /\ add_no_resolve(final_rules) = final_rules

\* the inputs of the end-to-end scenario
ScenarioEnv ==
    [source |-> <<ScenarioFeed>>,
     append |-> <<<<Rule(S_DOMAIN, special_example_com)>>>>,
     excludes |-> <<<<Rule(S_DOMAIN, other_net)>>>>]

\* C9: with the scenario's baseline feed, append list and exclude list the
\* pipeline emits exactly DOMAIN,special.example.com then
\* DOMAIN-SUFFIX,example.com.
C9_EndToEnd ==
    (Customized /\ env[category] = ScenarioEnv) =>
        final_rules = <<Rule(S_DOMAIN, special_example_com),
                        Rule(S_DOMAIN_SUFFIX, example_com)>>

\* generate_rules.main has left the loop over the categories and exited
Exited == pc = "exited"

\* what the baseline feed of a category yielded: nothing (the fetch failed) or
\* the empty text
NoContent(base) == IsNone(base) \/ base[1] = <<>>

\* a category for which an output file is missing at the end of the run
LacksFile(c) == sr_files[c] = <<>> \/ mh_files[c] = <<>>

\* C11: at the end of the run over direct, proxy, reject, whatever the fetches
\* returned: a category whose baseline feed yielded no content (failed fetch
\* or empty content) has no output file; every other category has its two
\* files unless a failure was reported; and the exit status is non-zero
\* exactly when some category was skipped or failed.
C11_FeedFailureIsolation ==
    Exited =>
        /\ \A c \in 1..NumCategories :
              NoContent(env[c].base) => (sr_files[c] = <<>> /\ mh_files[c] = <<>>)
        /\ \A c \in 1..NumCategories :
              ~ NoContent(env[c].base) => (~ LacksFile(c) \/ exit_status = <<1>>)
        /\ exit_status = <<1>>
              <=> \E c \in 1..NumCategories : NoContent(env[c].base) \/ LacksFile(c)

\* s <= t for Python strings
str_le(s, t) == ~ str_less(t, s)

\* the earlier line does not come after the later one in the order by
\* normalized value, then by kind name
ValueOrdered(a, b) ==
    /\ str_le(Key(a), Key(b))
    /\ Key(a) = Key(b) => str_le(Kind(a), Kind(b))

\* C12: the list deduplicate_rules returns is sorted ascending by normalized
\* value, ties broken by kind name: of any two adjacent lines the earlier
\* one's normalized value is less than or equal to the later one's.
C12_SortedByValue ==
    Returned =>
        \A k \in 1..(Len(deduped) - 1) : ValueOrdered(deduped[k], deduped[k + 1])

====
